---------------------------- MODULE Spec2Model ----------------------------
(***************************************************************************)
(* RECOV.AI debt-recovery prediction service.                              *)
(*                                                                         *)
(* The model follows backend/predictor.py (RecoveryPredictor) and          *)
(* backend/main.py (the HTTP handlers).  A call is answered before the     *)
(* next one starts (pc); what predict_proba does in a call is an input of  *)
(* the call (the oracle).                                                  *)
(*                                                                         *)
(* Spec is the predictor used as a library (predict_recovery called on a   *)
(* dict, as verify_day2.py does); ServiceSpec is the HTTP server of        *)
(* main.py with its in-memory accounts_db; ExplainSpec is the explanation  *)
(* engine of backend/shap_explainer.py, constructed and called on prepared *)
(* feature frames.                                                         *)
(*                                                                         *)
(* Numbers.  Python floats and ints are modelled in fixed point: a number  *)
(* value holds an integer count of thousandths (Milli).  45 days is 45000, *)
(* the probability 0.925 is 925.  Arithmetic is exact on that grid; binary *)
(* floating-point rounding error is outside the model.                     *)
(*                                                                         *)
(* Python values are records [k, v, s]: k the kind, v the thousandths of a *)
(* number, s the text of a string.                                         *)
(***************************************************************************)
EXTENDS Integers, Sequences, FiniteSets, TLC

VARIABLES
    artifact,       \* what sits at the model path (read once, by __init__)
    predictor,      \* main.py's global: "RecoveryPredictor" or "None"
    accounts_db,    \* main.py's global dict: account_id -> the stored account dict
    model,          \* RecoveryPredictor.model: "none" or "clf"
    feature_names,  \* RecoveryPredictor.feature_names: sequence of column names
    engine,         \* an ExplainabilityEngine, once one is constructed
    pc,             \* "idle": no call in progress; "responded": a call has returned
    req,            \* the call that produced resp
    resp            \* what the last call returned (or raised) to its caller

vars == <<artifact, predictor, accounts_db, model, feature_names, engine, pc, req, resp>>

\* thousandths per unit (10^3)
Milli == 10 * 10 * 10

(***************************************************************************)
(* Python values                                                           *)
(***************************************************************************)
Absent == [k |-> "absent", v |-> 0, s |-> ""]     \* key not in the dict
None == [k |-> "none", v |-> 0, s |-> ""]
NaN == [k |-> "nan", v |-> 0, s |-> ""]           \* float('nan')
NegInf == [k |-> "neginf", v |-> 0, s |-> ""]     \* float('-inf')
Num(n) == [k |-> "num", v |-> n, s |-> ""]        \* int or float, n thousandths
Str(t) == [k |-> "str", v |-> 0, s |-> t]         \* a string
Bool(b) == [k |-> "bool", v |-> IF b THEN 1 ELSE 0, s |-> ""]

\* dict.get(key, default)
Get(data, key, default) ==
    IF data[key].k = "absent" THEN default ELSE data[key]

\* bool(x)
PyTruthy(x) ==
    CASE x.k = "none" -> FALSE
      [] x.k = "num" -> x.v # 0
      [] x.k = "bool" -> x.v = 1
      [] x.k = "str" -> x.s # ""
      [] OTHER -> TRUE

\* data.get(key, 0) or 0
GetOr0(data, key) ==
    LET x == Get(data, key, Num(0)) IN IF PyTruthy(x) THEN x ELSE Num(0)

\* n / d truncated toward zero, as int() truncates a float
TruncDiv(n, d) == IF n >= 0 THEN n \div d ELSE -((-n) \div d)

\* The strings of the model that spell a number, with the thousandths they spell;
\* float() and int() raise ValueError on every other string
NumberTexts ==
    ("0" :> 0) @@ ("1" :> Milli) @@ ("45" :> 45 * Milli) @@ ("1000" :> 1000 * Milli)
        @@ ("0.7" :> 700) @@ ("0.25" :> 250) @@ ("1.61" :> 1610)
IntegerTexts == {"0", "1", "45", "1000"}

\* str.upper() on the strings of the model
Upper(t) ==
    CASE t \in {"true", "True"} -> "TRUE"
      [] t \in {"yes", "Yes"} -> "YES"
      [] t \in {"false", "False"} -> "FALSE"
      [] t = "abc" -> "ABC"
      [] OTHER -> t

Raised == [ok |-> FALSE, val |-> None]
Ok(x) == [ok |-> TRUE, val |-> x]

\* float(x): raises ValueError on a string that spells no number
PyFloat(x) ==
    CASE x.k = "num" -> Ok(x)
      [] x.k = "nan" -> Ok(x)
      [] x.k = "neginf" -> Ok(x)
      [] x.k = "str" /\ x.s \in DOMAIN NumberTexts -> Ok(Num(NumberTexts[x.s]))
      [] x.k = "bool" -> Ok(Num(x.v * Milli))
      [] OTHER -> Raised

\* int(x): truncates a float, raises on NaN, on an infinity, on a string that
\* spells no integer
PyInt(x) ==
    CASE x.k = "num" -> Ok(Num(TruncDiv(x.v, Milli) * Milli))
      [] x.k = "str" /\ x.s \in IntegerTexts -> Ok(Num(NumberTexts[x.s]))
      [] x.k = "bool" -> Ok(Num(x.v * Milli))
      [] OTHER -> Raised

\* str(x) for the values an identifier or a category takes
PyStr(x) ==
    CASE x.k = "str" -> x.s
      [] x.k = "none" -> "None"
      [] x.k = "nan" -> "nan"
      [] OTHER -> "<number>"

(***************************************************************************)
(* A record (the dict given to predict_recovery)                           *)
(***************************************************************************)
NumericFloatFields ==
    {"amount", "payment_history_score", "shipment_volume_change_30d", "express_ratio"}
NumericIntFields ==
    {"days_overdue", "shipment_volume_30d", "destination_diversity",
     "contact_attempts", "customer_tenure_months"}
NumericFields == NumericFloatFields \cup NumericIntFields
Fields ==
    {"account_id", "company_name", "email_opened", "dispute_flag", "industry", "region"}
        \cup NumericFields

HERO_ID == "ACC0001"

(***************************************************************************)
(* RecoveryPredictor.prepare_features                                      *)
(***************************************************************************)
\* np.log1p(amount) in thousandths, tabulated for the amounts of the model's
\* records (ln 2 = 0.693, ln 1001 = 6.909, ln 150001 = 11.918); log1p is nan below -1 and
\* -inf at -1 (numpy warns, it does not raise)
Log1p(x) ==
    CASE x.k = "nan" -> NaN
      [] x.k = "num" /\ x.v < -Milli -> NaN
      [] x.k = "num" /\ x.v = -Milli -> NegInf
      [] x.k = "num" /\ x.v = 0 -> Num(0)
      [] x.k = "num" /\ x.v = Milli -> Num(693)
      [] x.k = "num" /\ x.v = 1000 * Milli -> Num(6909)
      [] x.k = "num" /\ x.v = 150000 * Milli -> Num(11918)

\* BoolFeature matching the string as given, without upper()
BoolFeatureCaseSensitive(data, key) ==
    LET x == Get(data, key, Num(0)) IN
    IF x.k = "str"
    THEN IF x.s \in {"TRUE", "1", "YES"} THEN Num(Milli) ELSE Num(0)
    ELSE IF PyTruthy(x) THEN Num(Milli) ELSE Num(0)

\* lines 82-92: a string is matched upper-cased against TRUE / 1 / YES, any
\* other value goes through int(bool(x))
BoolFeature(data, key) ==
    LET x == Get(data, key, Num(0)) IN
    IF x.k = "str"
    THEN IF Upper(x.s) \in {"TRUE", "1", "YES"} THEN Num(Milli) ELSE Num(0)
    ELSE IF PyTruthy(x) THEN Num(Milli) ELSE Num(0)

\* Industry without the Technology -> Tech rewrite
IndustryAsGiven(data) == PyStr(Get(data, "industry", Str("Other")))

\* Region with a missing region counted as South
RegionDefaultSouth(data) == PyStr(Get(data, "region", Str("South")))

\* lines 95-102
Industry(data) ==
    LET industry_raw == PyStr(Get(data, "industry", Str("Other"))) IN
    IF industry_raw = "Technology" THEN "Tech" ELSE industry_raw
Region(data) == PyStr(Get(data, "region", Str("Other")))

OneHot(actual, category) == IF actual = category THEN Num(Milli) ELSE Num(0)

\* lines 71-79: the nine numeric conversions, each [ok, val]
ParseNumeric(data) ==
    [f \in NumericFields |->
        IF f \in NumericFloatFields THEN PyFloat(GetOr0(data, f)) ELSE PyInt(GetOr0(data, f))]

\* lines 105-131: the synthesized columns, in the order of the dict literal
SynthesizedColumns ==
    << "amount_log", "days_overdue", "payment_history_score",
       "shipment_volume_change_30d", "shipment_volume_30d", "express_ratio",
       "destination_diversity", "contact_attempts", "customer_tenure_months",
       "email_opened", "dispute_flag",
       "industry_Construction", "industry_Medical", "industry_Retail",
       "industry_Tech", "industry_Textile",
       "region_East", "region_North", "region_South", "region_West" >>

Range(seq) == {seq[i] : i \in 1..Len(seq)}

\* the value of one synthesized column; n the converted numeric fields
FeatureValue(data, n, industry, region, col) ==
    CASE col = "amount_log" -> Log1p(n["amount"].val)
      [] col \in NumericFields -> n[col].val
      [] col \in {"email_opened", "dispute_flag"} -> BoolFeature(data, col)
      [] col = "industry_Construction" -> OneHot(industry, "Construction")
      [] col = "industry_Medical" -> OneHot(industry, "Medical")
      [] col = "industry_Retail" -> OneHot(industry, "Retail")
      [] col = "industry_Tech" -> OneHot(industry, "Tech")
      [] col = "industry_Textile" -> OneHot(industry, "Textile")
      [] col = "region_East" -> OneHot(region, "East")
      [] col = "region_North" -> OneHot(region, "North")
      [] col = "region_South" -> OneHot(region, "South")
      [] col = "region_West" -> OneHot(region, "West")

\* line 134: the one-row DataFrame, a sequence of <<column, value>>
Features(data, n, industry, region) ==
    [i \in 1..Len(SynthesizedColumns) |->
        <<SynthesizedColumns[i],
          FeatureValue(data, n, industry, region, SynthesizedColumns[i])>>]

\* AlignFeatures without the final selection df[self.feature_names]: the missing
\* columns are appended, nothing is dropped or reordered
AlignFeaturesNoSelect(df, names) ==
    df \o [i \in 1..Len(names) |-> <<names[i], Num(0)>>]

\* lines 137-142: add every expected column the frame lacks as 0, then select
\* the expected columns in the expected order
AlignFeatures(df, names) ==
    IF names = <<>> THEN df
    ELSE [i \in 1..Len(names) |->
            IF \E j \in 1..Len(df) : df[j][1] = names[i]
            THEN <<names[i], df[CHOOSE j \in 1..Len(df) : df[j][1] = names[i]][2]>>
            ELSE <<names[i], Num(0)>>]

NoFrame == <<>>

\* lines 81-146, once the numeric fields are converted (n)
PrepareFrom(self_feature_names, data, n) ==
    IF \E f \in NumericFields : ~n[f].ok THEN [ok |-> FALSE, X |-> NoFrame]
    ELSE [ok |-> TRUE,
          X |-> AlignFeatures(Features(data, n, Industry(data), Region(data)),
                              self_feature_names)]

\* prepare_features(self, data): [ok, X]; ok = FALSE when a conversion raised
prepare_features(self_feature_names, data) ==
    PrepareFrom(self_feature_names, data, ParseNumeric(data))

(***************************************************************************)
(* RecoveryPredictor.__init__: resolving the model artifact                *)
(*                                                                         *)
(* An artifact is what sits at the model path:                             *)
(*   exists     a file is found at one of the two paths                    *)
(*   loadable   joblib.load returns (FALSE: it raises)                     *)
(*   shape      "estimator" (has predict / predict_proba), "dict", "other" *)
(*   models     the dict's 'models' entry: "absent", "empty" (a dict with  *)
(*              no 'classifier'), "classifier"                             *)
(*   alt_key    the dict holds the classifier under 'model'                *)
(*   has_names  the dict has 'feature_names';  names  that list            *)
(*   clf_has_names  the classifier has feature_names_in_;  clf_names       *)
(***************************************************************************)
TrainColumns ==
    << "amount_log", "days_overdue", "payment_history_score",
       "shipment_volume_change_30d", "shipment_volume_30d", "express_ratio",
       "destination_diversity", "contact_attempts", "customer_tenure_months" >>
\* a retrained schema: other order, a category the encoder never synthesizes
RetrainColumns ==
    << "days_overdue", "amount_log", "payment_history_score", "email_opened",
       "industry_Other", "industry_Tech", "region_Central", "region_South" >>

MkArtifact(ex, ld, sh, mo, alt, hn, n, chn, cn) ==
    [exists |-> ex, loadable |-> ld, shape |-> sh, models |-> mo, alt_key |-> alt,
     has_names |-> hn, names |-> n, clf_has_names |-> chn, clf_names |-> cn]

Artifacts ==
    { MkArtifact(FALSE, FALSE, "other", "absent", FALSE, FALSE, <<>>, FALSE, <<>>),
      MkArtifact(TRUE, FALSE, "other", "absent", FALSE, FALSE, <<>>, FALSE, <<>>),
      MkArtifact(TRUE, TRUE, "other", "absent", FALSE, FALSE, <<>>, FALSE, <<>>),
      MkArtifact(TRUE, TRUE, "estimator", "absent", FALSE, FALSE, <<>>, FALSE, <<>>),
      MkArtifact(TRUE, TRUE, "estimator", "absent", FALSE, FALSE, <<>>, TRUE, TrainColumns),
      MkArtifact(TRUE, TRUE, "dict", "classifier", FALSE, TRUE, SynthesizedColumns, FALSE, <<>>),
      MkArtifact(TRUE, TRUE, "dict", "classifier", FALSE, TRUE, TrainColumns, TRUE, RetrainColumns),
      MkArtifact(TRUE, TRUE, "dict", "classifier", FALSE, FALSE, <<>>, FALSE, <<>>),
      MkArtifact(TRUE, TRUE, "dict", "empty", FALSE, TRUE, TrainColumns, FALSE, <<>>),
      MkArtifact(TRUE, TRUE, "dict", "absent", TRUE, TRUE, RetrainColumns, FALSE, <<>>) }

\* lines 39-50: the classifier the predictor resolves, "clf" or "none"
ResolveModel(a) ==
    IF a.shape = "estimator" THEN "clf"
    ELSE IF a.shape = "dict" /\ a.models = "classifier" THEN "clf"
    ELSE "none"

\* ResolveFeatureNames with the container's list kept when it declares one
ResolveFeatureNamesDeclaredFirst(a) ==
    IF a.shape = "dict" /\ a.has_names THEN a.names
    ELSE IF ResolveModel(a) = "clf" /\ a.clf_has_names THEN a.clf_names
    ELSE <<>>

\* lines 52-58
ResolveFeatureNames(a) ==
    LET declared == IF a.shape = "dict" /\ a.has_names THEN a.names ELSE <<>> IN
    IF ResolveModel(a) = "clf" /\ a.clf_has_names THEN a.clf_names ELSE declared

\* __init__: [model, feature_names]
LoadPredictor(a) ==
    IF ~a.exists \/ ~a.loadable
    THEN [model |-> "none", feature_names |-> <<>>]
    ELSE [model |-> ResolveModel(a), feature_names |-> ResolveFeatureNames(a)]

(***************************************************************************)
(* RecoveryPredictor.predict_recovery                                      *)
(*                                                                         *)
(* A result holds recovery_probability in thousandths, expected_days in    *)
(* days, recovery_velocity_score in hundredths.  prediction_timestamp (the *)
(* wall clock) is left out.                                                *)
(***************************************************************************)
Factor(f, i, d) == [feature |-> f, impact |-> i, direction |-> d]

NoResult ==
    [account_id |-> "", company_name |-> "", recovery_probability |-> 0,
     recovery_percentage |-> 0, expected_days |-> 0, recovery_velocity_score |-> 0,
     risk_level |-> "", recommended_dca |-> "", top_factors |-> <<>>]

\* line 157
IsHero(account_id) == account_id = HERO_ID

\* lines 159-178
HeroResult(company_name) ==
    [account_id |-> HERO_ID, company_name |-> company_name,
     recovery_probability |-> 925, recovery_percentage |-> 925,
     expected_days |-> 25, recovery_velocity_score |-> 370,
     risk_level |-> "Low", recommended_dca |-> "In-House Retention Team",
     top_factors |->
        << Factor("payment_history_score", Num(950), "positive"),
           Factor("shipment_volume_change_30d", Num(400), "positive"),
           Factor("days_overdue", Num(100), "neutral") >>]

\* x > c for a float x and a constant c thousandths; any comparison with nan is False
Gt(x, c) == x.k = "num" /\ x.v > c
Lt(x, c) == x.k = "num" /\ x.v < c

\* FallbackProb with the score taken whenever it is a number
FallbackProbAnyScore(original_history) ==
    IF original_history.k = "num" THEN original_history.v ELSE 500

\* line 201
FallbackProb(original_history) ==
    IF Gt(original_history, 0) THEN original_history.v ELSE 500

\* ExpectedDays with the slope of the last bucket off by ten
ExpectedDaysSteep(prob) ==
    IF prob > 800 THEN TruncDiv(30 * Milli + (Milli - prob) * 50, Milli)
    ELSE IF prob > 600 THEN TruncDiv(45 * Milli + (Milli - prob) * 60, Milli)
    ELSE IF prob > 400 THEN TruncDiv(60 * Milli + (Milli - prob) * 80, Milli)
    ELSE TruncDiv(90 * Milli + (Milli - prob) * 100, Milli)

\* ExpectedDays with the base of the third bucket at 30 days
ExpectedDaysLowThird(prob) ==
    IF prob > 800 THEN TruncDiv(30 * Milli + (Milli - prob) * 50, Milli)
    ELSE IF prob > 600 THEN TruncDiv(45 * Milli + (Milli - prob) * 60, Milli)
    ELSE IF prob > 400 THEN TruncDiv(30 * Milli + (Milli - prob) * 80, Milli)
    ELSE TruncDiv(90 * Milli + (Milli - prob) * 90, Milli)

\* lines 207-214
ExpectedDays(prob) ==
    IF prob > 800 THEN TruncDiv(30 * Milli + (Milli - prob) * 50, Milli)
    ELSE IF prob > 600 THEN TruncDiv(45 * Milli + (Milli - prob) * 60, Milli)
    ELSE IF prob > 400 THEN TruncDiv(60 * Milli + (Milli - prob) * 80, Milli)
    ELSE TruncDiv(90 * Milli + (Milli - prob) * 90, Milli)

Max(a, b) == IF a >= b THEN a ELSE b
Min(a, b) == IF a <= b THEN a ELSE b

\* n / d rounded to the nearest integer, ties to even, as round() does (d > 0, n >= 0)
RoundDiv(n, d) ==
    LET q == n \div d
        r == n % d
    IN  IF 2 * r > d \/ (2 * r = d /\ q % 2 = 1) THEN q + 1 ELSE q

\* lines 216, 278: round((prob * 100) / max(expected_days, 1), 2), in hundredths
VelocityScore(prob, expected_days) == RoundDiv(prob * 10, Max(expected_days, 1))

\* lines 219-226
RiskLevel(prob) ==
    IF prob > 800 THEN "Low"
    ELSE IF prob > 600 THEN "Medium"
    ELSE IF prob > 400 THEN "High"
    ELSE "Very High"

\* RecommendedDca with a tier per risk bucket, the middle two both Standard
RecommendedDcaFourTiers(prob) ==
    IF prob > 800 THEN "Premium Recovery Services"
    ELSE IF prob > 400 THEN "Standard Recovery Partners"
    ELSE "Recovery Specialists Inc"

\* lines 229-246
RecommendedDca(prob) ==
    IF prob > 800 THEN "Premium Recovery Services"
    ELSE IF prob > 600 THEN "Standard Recovery Partners"
    ELSE "Recovery Specialists Inc"

\* abs(x) of a float
PyAbs(x) == IF x.k = "num" THEN Num(IF x.v < 0 THEN -x.v ELSE x.v) ELSE x

\* TopFactors with the days impact left uncapped
TopFactorsUncapped(original_history, original_shipment, original_days) ==
    << Factor("payment_history_score", original_history,
              IF Gt(original_history, 500) THEN "positive" ELSE "neutral"),
       Factor("shipment_volume_change_30d", PyAbs(original_shipment),
              IF Gt(original_shipment, 0) THEN "positive" ELSE "negative"),
       Factor("days_overdue", Num(original_days.v \div 180),
              IF Lt(original_days, 60 * Milli) THEN "neutral" ELSE "negative") >>

\* lines 249-268
TopFactors(original_history, original_shipment, original_days) ==
    << Factor("payment_history_score", original_history,
              IF Gt(original_history, 500) THEN "positive" ELSE "neutral"),
       Factor("shipment_volume_change_30d", PyAbs(original_shipment),
              IF Gt(original_shipment, 0) THEN "positive" ELSE "negative"),
       Factor("days_overdue", Num(Min(original_days.v \div 180, Milli)),
              IF Lt(original_days, 60 * Milli) THEN "neutral" ELSE "negative") >>

\* lines 204-283: the result built from prob and the original values
Metrics(account_id, company_name, prob, original_history, original_shipment, original_days) ==
    [account_id |-> account_id, company_name |-> company_name,
     recovery_probability |-> prob, recovery_percentage |-> prob,
     expected_days |-> ExpectedDays(prob),
     recovery_velocity_score |-> VelocityScore(prob, ExpectedDays(prob)),
     risk_level |-> RiskLevel(prob), recommended_dca |-> RecommendedDca(prob),
     top_factors |-> TopFactors(original_history, original_shipment, original_days)]

\* What self.model.predict_proba(X)[0][1] does in one call: it raises, or it
\* returns the positive-class probability p (thousandths, 0..Milli).
OracleRaises == [raises |-> TRUE, p |-> 0]
OracleReturns(p) == [raises |-> FALSE, p |-> p]

\* lines 192-196: predict_proba on the prepared frame f
InferOn(f, oracle) ==
    IF ~f.ok
    THEN [ok |-> FALSE, prob |-> 0, X |-> NoFrame, steps |-> <<"encode">>]
    ELSE IF oracle.raises
    THEN [ok |-> FALSE, prob |-> 0, X |-> f.X, steps |-> <<"encode", "infer">>]
    ELSE [ok |-> TRUE, prob |-> oracle.p, X |-> f.X, steps |-> <<"encode", "infer">>]

\* lines 187-196, the try block: [ok, prob, X, steps]; ok = FALSE when it raised.
\* steps lists what ran: "encode" = prepare_features, "infer" = predict_proba.
TryInference(self_model, self_feature_names, data, oracle) ==
    IF self_model = "none"
    THEN [ok |-> FALSE, prob |-> 0, X |-> NoFrame, steps |-> <<>>]
    ELSE InferOn(prepare_features(self_feature_names, data), oracle)

\* ExceptFallback that runs predict_proba a second time before falling back
ExceptRetry(t, original_history) ==
    IF t.ok THEN [prob |-> t.prob, X |-> t.X, steps |-> t.steps]
    ELSE [prob |-> IF original_history.k = "num" /\ original_history.v > 0
                   THEN original_history.v ELSE 500,
          X |-> t.X, steps |-> t.steps \o <<"except", "infer", "fallback">>]

\* lines 198-202, the except clause, given how the try block t ended
ExceptFallback(t, original_history) ==
    IF t.ok THEN [prob |-> t.prob, X |-> t.X, steps |-> t.steps]
    ELSE [prob |-> FallbackProb(original_history), X |-> t.X,
          steps |-> t.steps \o <<"except", "fallback">>]

\* lines 187-202, try / except: [prob, X, steps]
InferOrFallback(self_model, self_feature_names, data, oracle, original_history) ==
    ExceptFallback(TryInference(self_model, self_feature_names, data, oracle),
                   original_history)

\* lines 182-185: the four conversions made outside the try block
Originals(data) ==
    [amount |-> PyFloat(GetOr0(data, "amount")),
     days |-> PyInt(GetOr0(data, "days_overdue")),
     history |-> PyFloat(GetOr0(data, "payment_history_score")),
     shipment |-> PyFloat(GetOr0(data, "shipment_volume_change_30d"))]
OriginalsRaise(o) == ~(o.amount.ok /\ o.days.ok /\ o.history.ok /\ o.shipment.ok)

\* lines 204-283, given the originals o and the outcome i of try / except
Finish(account_id, company_name, o, i) ==
    [outcome |-> "returned",
     result |-> Metrics(account_id, company_name, i.prob, o.history.val,
                        o.shipment.val, o.days.val),
     X |-> i.X, steps |-> <<"originals">> \o i.steps \o <<"metrics">>]

\* lines 181-283, given the originals o
PredictFrom(self_model, self_feature_names, data, oracle, account_id, o) ==
    IF OriginalsRaise(o)
    THEN [outcome |-> "raised", result |-> NoResult, X |-> NoFrame,
          steps |-> <<"originals">>]
    ELSE Finish(account_id, PyStr(Get(data, "company_name", Str("Unknown Company"))), o,
                InferOrFallback(self_model, self_feature_names, data, oracle,
                                o.history.val))

\* PredictFor with the sentinel test made after the four conversions
PredictForLateHero(self_model, self_feature_names, data, oracle, account_id) ==
    IF OriginalsRaise(Originals(data)) \/ account_id # HERO_ID
    THEN PredictFrom(self_model, self_feature_names, data, oracle, account_id,
                     Originals(data))
    ELSE [outcome |-> "returned",
          result |-> HeroResult(PyStr(Get(data, "company_name", Str("Unknown Company")))),
          X |-> NoFrame, steps |-> <<"hero">>]

\* predict_recovery(self, data): [outcome, result, X, steps].
\*   outcome   "returned", or "raised" when an exception leaves the method
\*   X         the frame prepare_features returned in this call, if any
\*   steps     the steps that ran, in order
PredictFor(self_model, self_feature_names, data, oracle, account_id) ==
    IF IsHero(account_id)
    THEN [outcome |-> "returned",
          result |-> HeroResult(PyStr(Get(data, "company_name", Str("Unknown Company")))),
          X |-> NoFrame, steps |-> <<"hero">>]
    ELSE PredictFrom(self_model, self_feature_names, data, oracle, account_id,
                     Originals(data))

predict_recovery(self_model, self_feature_names, data, oracle) ==
    PredictFor(self_model, self_feature_names, data, oracle,
               PyStr(Get(data, "account_id", Str("Unknown"))))

(***************************************************************************)
(* shap_explainer.py: ExplainabilityEngine                                 *)
(***************************************************************************)
\* _load_model: what the engine takes as its model from the artifact: "clf",
\* "none", or the loaded object itself ("dict", "other") when it holds no
\* classifier under a key the engine knows
ExplainerModel(a) ==
    IF ~a.exists \/ ~a.loadable THEN "none"
    ELSE IF a.shape = "dict"
    THEN IF a.models # "absent"
         THEN IF a.models = "classifier" THEN "clf" ELSE "none"
         ELSE IF a.alt_key THEN "clf" ELSE "dict"
    ELSE IF a.shape = "estimator" THEN "clf" ELSE "other"

\* _clean_feature_name on the column names of the model: the name_map, then
\* "<Category>: <value>" for an indicator, then title case
CleanFeatureName(name) ==
    CASE name = "amount_log" -> "Invoice Amount (log)"
      [] name = "days_overdue" -> "Days Overdue"
      [] name = "payment_history_score" -> "Payment History Score"
      [] name = "shipment_volume_change_30d" -> "Shipment Volume Change (30d)"
      [] name = "shipment_volume_30d" -> "Shipment Volume (30d)"
      [] name = "express_ratio" -> "Express Shipment Ratio"
      [] name = "destination_diversity" -> "Shipping Destination Diversity"
      [] name = "email_opened" -> "Email Engagement"
      [] name = "dispute_flag" -> "Dispute History"
      [] name = "contact_attempts" -> "Contact Attempts"
      [] name = "customer_tenure_months" -> "Customer Tenure Months"
      [] name = "industry_Construction" -> "Industry: Construction"
      [] name = "industry_Medical" -> "Industry: Medical"
      [] name = "industry_Retail" -> "Industry: Retail"
      [] name = "industry_Tech" -> "Industry: Tech"
      [] name = "industry_Textile" -> "Industry: Textile"
      [] name = "industry_Other" -> "Industry: Other"
      [] name = "region_East" -> "Region: East"
      [] name = "region_North" -> "Region: North"
      [] name = "region_South" -> "Region: South"
      [] name = "region_West" -> "Region: West"
      [] name = "region_Central" -> "Region: Central"

\* an attribution of magnitude 5e-11, below the 1e-10 cut: sign is 1 or -1
Tiny(sign) == [k |-> "tiny", v |-> sign, s |-> ""]
\* abs(val) < 1e-10
Negligible(x) == x.k = "tiny" \/ (x.k = "num" /\ x.v = 0)
PosInf == [k |-> "inf", v |-> 0, s |-> ""]
\* abs() of a float
Magnitude(x) == IF x.k = "neginf" THEN PosInf ELSE PyAbs(x)
\* a > b for two magnitudes; False when either is nan
GtValue(a, b) ==
    \/ a.k = "num" /\ b.k = "num" /\ a.v > b.v
    \/ a.k = "inf" /\ b.k = "num"

\* __init__ (lines 28-45): the engine built on artifact a.  shap_available is
\* SHAP_AVAILABLE (lines 14-19); tree_raises says whether shap.TreeExplainer
\* raises on a classifier.  On anything that is no classifier TreeExplainer
\* raises, and _initialize_explainer leaves explainer None.
NoEngine ==
    [built |-> FALSE, shap_available |-> FALSE, model |-> "none", explainer |-> "none",
     feature_names |-> <<>>]
\* _load_model, lines 80-98: the feature names the engine keeps
ExplainerFeatureNames(a) ==
    IF ~a.exists \/ ~a.loadable \/ ExplainerModel(a) = "none" THEN <<>>
    ELSE IF a.shape = "dict" THEN (IF a.has_names THEN a.names ELSE <<>>)
    ELSE IF a.shape = "estimator" /\ a.clf_has_names THEN a.clf_names
    ELSE <<>>
ExplainabilityEngine(a, shap_available, tree_raises) ==
    [built |-> TRUE, shap_available |-> shap_available,
     model |-> ExplainerModel(a),
     explainer |-> IF shap_available /\ ExplainerModel(a) = "clf" /\ ~tree_raises
                   THEN "tree" ELSE "none",
     feature_names |-> ExplainerFeatureNames(a)]

\* One factor of an explanation
ExplainedFactor(f, i, d, fv) ==
    [feature |-> f, impact |-> i, direction |-> d, feature_value |-> fv]

\* str() of an integer cell
IntText(x) == CHOOSE t \in IntegerTexts : NumberTexts[t] = x.v
\* the columns prepare_features fills with floats; every other column is int64
FloatColumns ==
    {"amount_log", "payment_history_score", "shipment_volume_change_30d", "express_ratio"}
\* lines 186, 193: X_df.iloc[0, i] is a numpy scalar; numpy.float64 is a float,
\* numpy.int64 is no int, so an integer cell is reported as its text
FeatureValueOf(col) ==
    IF col[1] \in FloatColumns THEN col[2] ELSE Str(IntText(col[2]))

\* the result with no factors (lines 152, 264)
EmptyExplanation ==
    [outcome |-> "returned", top_factors |-> <<>>, base_value |-> Absent, method |-> ""]

\* the positions of a sequence of impacts that survive the 1e-10 cut
Kept(impacts, n) == {i \in 1..n : ~Negligible(impacts[i])}
\* the place position i takes when the kept positions are sorted by descending
\* absolute impact; list.sort is stable, reverse=True keeps equal keys in order
Place(impacts, kept, i) ==
    1 + Cardinality({j \in kept :
            \/ GtValue(Magnitude(impacts[j]), Magnitude(impacts[i]))
            \/ (Magnitude(impacts[j]) = Magnitude(impacts[i]) /\ j < i)})
\* the kept positions in sorted order.  With a nan among the keys the order
\* list.sort leaves depends on the comparisons it happens to make: the order is
\* then the permutation `order` of the kept positions in frame order.
RECURSIVE InFrameOrder(_)
InFrameOrder(kept) ==
    IF kept = {} THEN <<>>
    ELSE LET least == CHOOSE i \in kept : \A j \in kept : i <= j
         IN  <<least>> \o InFrameOrder(kept \ {least})
HasNanKey(impacts, kept) == \E i \in kept : impacts[i].k = "nan"
Ranked(impacts, kept, order) ==
    IF HasNanKey(impacts, kept)
    THEN [r \in 1..Cardinality(kept) |-> InFrameOrder(kept)[order[r]]]
    ELSE [r \in 1..Cardinality(kept) |-> CHOOSE i \in kept : Place(impacts, kept, i) = r]

\* the orders list.sort may leave n factors in
Orders(impacts, kept) ==
    IF HasNanKey(impacts, kept) THEN Permutations(1..Cardinality(kept))
    ELSE {[r \in 1..Cardinality(kept) |-> r]}

\* feature_importance[:5]
TopFive(seq) == SubSeq(seq, 1, Min(5, Len(seq)))

\* TreeValues taking the first member of a class-wise pair
TreeValuesFirstMember(shap) == shap.vals[1]

\* lines 161-175: the attributions used, from what shap_values returned: of a
\* list of two arrays the second (positive class), of any other list the first,
\* an array as it is; then its first row
TreeValues(shap) ==
    IF shap.format = "list" /\ Len(shap.vals) = 2 THEN shap.vals[2] ELSE shap.vals[1]

\* lines 201-208: the base value, from explainer.expected_value
BaseValue(shap) ==
    CASE shap.expected.kind = "scalar" -> Num(shap.expected.vals[1])
      [] shap.expected.kind = "list" -> Num(shap.expected.vals[Len(shap.expected.vals)])
      [] shap.expected.kind = "missing" -> Num(500)

\* lines 177-213: the explanation built from the attributions vals
TreeExplanation(cols, vals, ranked, base_value) ==
    [outcome |-> "returned",
     top_factors |->
        TopFive([r \in 1..Len(ranked) |->
            ExplainedFactor(CleanFeatureName(cols[ranked[r]][1]), vals[ranked[r]],
                            IF Gt(vals[ranked[r]], 0) THEN "positive" ELSE "negative",
                            FeatureValueOf(cols[ranked[r]]))]),
     base_value |-> base_value, method |-> ""]

\* lines 228-236: the importances the fallback ranks: the model's
\* feature_importances_ when the engine holds a classifier (imp: what reading
\* it gives), else the absolute values of the row
Importances(self, cols, imp) ==
    IF self.model = "clf" THEN imp.vals ELSE [i \in 1..Len(cols) |-> Magnitude(cols[i][2])]

\* lines 238-259
FallbackExplanation(cols, importances, ranked) ==
    [outcome |-> "returned",
     top_factors |->
        TopFive([r \in 1..Len(ranked) |->
            ExplainedFactor(CleanFeatureName(cols[ranked[r]][1]), importances[ranked[r]],
                            IF Gt(cols[ranked[r]][2], 0) THEN "positive" ELSE "neutral",
                            FeatureValueOf(cols[ranked[r]]))]),
     base_value |-> Num(500), method |-> "feature_importance_fallback"]

\* fallback_explanation without the try of lines 224-264: a failure reaches the
\* caller
FallbackUnguarded(self, cols, imp, order) ==
    IF self.model = "clf" /\ imp.raises
    THEN [EmptyExplanation EXCEPT !.outcome = "raised"]
    ELSE FallbackExplanation(
            cols, Importances(self, cols, imp),
            Ranked(Importances(self, cols, imp),
                   Kept(Importances(self, cols, imp),
                        Min(Len(cols), Len(Importances(self, cols, imp)))),
                   order))

\* _fallback_explanation(self, X_df), lines 220-264
fallback_explanation(self, cols, imp, order) ==
    IF self.model = "clf" /\ imp.raises THEN EmptyExplanation
    ELSE FallbackExplanation(
            cols, Importances(self, cols, imp),
            Ranked(Importances(self, cols, imp),
                   Kept(Importances(self, cols, imp),
                        Min(Len(cols), Len(Importances(self, cols, imp)))),
                   order))

\* explain_prediction(self, X_df), lines 133-218.  X = [kind, cols]: kind
\* "none" (None), "empty" (a frame with no row) or "row"; shap is what
\* explainer.shap_values and expected_value give, imp what
\* model.feature_importances_ gives
explain_prediction(self, X, shap, imp, order) ==
    IF X.kind # "row" THEN EmptyExplanation
    ELSE IF self.explainer = "none" THEN fallback_explanation(self, X.cols, imp, order)
    ELSE IF shap.raises THEN fallback_explanation(self, X.cols, imp, order)
    ELSE TreeExplanation(X.cols, TreeValues(shap),
                         Ranked(TreeValues(shap),
                                Kept(TreeValues(shap),
                                     Min(Len(X.cols), Len(TreeValues(shap)))),
                                order),
                         BaseValue(shap))

(***************************************************************************)
(* The records given to predict_recovery                                   *)
(***************************************************************************)
BaseRecord ==
    [f \in Fields |->
        CASE f = "account_id" -> Str("T1")
          [] f = "company_name" -> Str("Acme")
          [] f = "amount" -> Num(1000 * Milli)
          [] f = "days_overdue" -> Num(45 * Milli)
          [] f = "payment_history_score" -> Num(700)
          [] f = "shipment_volume_change_30d" -> Num(250)
          [] OTHER -> Absent]

AccountIds == {Str(HERO_ID), Str("T1")}
HistoryValues ==
    {Absent, Num(-200), Num(0), Num(300), Num(500), Num(700), Num(Milli), Num(1610),
     Str("0.7")}
\* what one field of a record may hold instead of a well-formed number
OddValues == {Str("abc"), None, NaN}
AmountValues == {Num(-5 * Milli), Num(-Milli), Num(0), Num(150000 * Milli)}
DaysValues == {Num(60 * Milli), Num(200 * Milli)}
ShipmentValues == {Num(-300), Num(0)}
IndustryValues == {Str("Technology"), Str("Tech"), Str("Retail"), Str("Other"), None}
RegionValues == {Str("South"), Str("Central"), NaN}
BoolValues ==
    {Str("true"), Str("TRUE"), Str("Yes"), Str("1"), Str("0"), Str("false"), Str("abc"),
     Str(""), Bool(TRUE), Bool(FALSE), Num(Milli), Num(0), None, NaN}
\* <<field, value>>: the one field of the record that is overridden
Overrides ==
    {<<"company_name", Str("Acme")>>} \cup (NumericFields \X OddValues)
        \cup ({"amount"} \X AmountValues)
        \cup ({"days_overdue"} \X DaysValues)
        \cup ({"shipment_volume_change_30d"} \X ShipmentValues)
        \cup ({"industry"} \X IndustryValues) \cup ({"region"} \X RegionValues)
        \cup ({"email_opened"} \X BoolValues)
        \cup ({"dispute_flag"} \X {Str("yes"), Bool(TRUE), None})

Records ==
    { [BaseRecord EXCEPT !["account_id"] = a, !["payment_history_score"] = h,
                         ![o[1]] = o[2]] :
        a \in AccountIds, h \in HistoryValues, o \in Overrides }

\* the probabilities predict_proba returns in the model: the bucket edges
ProbGrid == {0, 1, 400, 401, 600, 601, 700, 701, 800, 801, Milli}
Oracles == {OracleRaises} \cup {OracleReturns(p) : p \in ProbGrid}

(***************************************************************************)
(* main.py: POST /analyze                                                  *)
(***************************************************************************)
\* pandas.read_csv: the cells of a column that it reads as missing
NaTexts == {"", "N/A"}

\* A column is numeric when every cell is missing or spells a number; the cells
\* of any other column stay strings.  Missing cells are nan in both.
ColumnIsNumeric(cells) == \A t \in cells : t \in NaTexts \/ t \in DOMAIN NumberTexts
ReadCell(t, numeric) ==
    IF t \in NaTexts THEN NaN
    ELSE IF numeric THEN Num(NumberTexts[t])
    ELSE Str(t)

\* lines 149, 164-165: row idx of the frame, as the dict row.to_dict() gives
ReadCsvRow(rows, idx) ==
    [f \in Fields |->
        CASE f = "account_id" -> Str(rows[idx].account_id)
          [] f = "amount" ->
                ReadCell(rows[idx].amount,
                         ColumnIsNumeric({rows[j].amount : j \in 1..Len(rows)}))
          [] f = "days_overdue" ->
                ReadCell(rows[idx].days_overdue,
                         ColumnIsNumeric({rows[j].days_overdue : j \in 1..Len(rows)}))
          [] OTHER -> BaseRecord[f]]

\* lines 171-179: what the loop body does with predict_recovery's outcome r
RowOutcome(r, amount, days_overdue) ==
    IF r.outcome = "raised" \/ ~amount.ok \/ ~days_overdue.ok
    THEN [ok |-> FALSE, prediction |-> NoResult]
    ELSE [ok |-> TRUE, prediction |-> r.result]

\* lines 164-179, one pass of the loop body: [ok, prediction]
ProcessRow(self_model, self_feature_names, account_dict, oracle) ==
    RowOutcome(predict_recovery(self_model, self_feature_names, account_dict, oracle),
               PyFloat(GetOr0(account_dict, "amount")),
               PyInt(GetOr0(account_dict, "days_overdue")))

\* the loop state after row i, given the state before it and the row's outcome
AfterRow(before, r, i) ==
    IF ~before.ok THEN before
    ELSE IF ~r.ok
    THEN [ok |-> FALSE, predictions |-> before.predictions, failed_at |-> i]
    ELSE [ok |-> TRUE, predictions |-> Append(before.predictions, r.prediction),
          failed_at |-> 0]

\* lines 163-179: the loop; after[i] is the state once the first i rows are
\* done.  An exception in a row leaves the loop (failed_at = its index).
ProcessRows(self_model, self_feature_names, rows, oracles) ==
    LET after[i \in 0..Len(rows)] ==
            IF i = 0 THEN [ok |-> TRUE, predictions |-> <<>>, failed_at |-> 0]
            ELSE AfterRow(after[i - 1],
                          ProcessRow(self_model, self_feature_names,
                                     ReadCsvRow(rows, i), oracles[i]),
                          i)
    IN  after[Len(rows)]

\* lines 185-187: the three bands of the summary
HighProbability(predictions) ==
    Cardinality({i \in 1..Len(predictions) : predictions[i].recovery_probability > 700})
\* MediumProbability with the band open at 0.7
MediumProbabilityOpen(predictions) ==
    Cardinality({i \in 1..Len(predictions) :
                    /\ 400 < predictions[i].recovery_probability
                    /\ predictions[i].recovery_probability < 700})

MediumProbability(predictions) ==
    Cardinality({i \in 1..Len(predictions) :
                    /\ 400 < predictions[i].recovery_probability
                    /\ predictions[i].recovery_probability <= 700})
LowProbability(predictions) ==
    Cardinality({i \in 1..Len(predictions) : predictions[i].recovery_probability <= 400})

\* lines 181-194: the response, given how the loop ended
AnalyzeFailure(code, failed_at) ==
    [status |-> code, total_accounts |-> 0, predictions |-> <<>>,
     summary |-> [high_probability |-> 0, medium_probability |-> 0,
                  low_probability |-> 0],
     failed_at |-> failed_at]
AnalyzeResponse(done) ==
    IF ~done.ok THEN AnalyzeFailure(500, done.failed_at)
    ELSE [status |-> 200, total_accounts |-> Len(done.predictions),
          predictions |-> done.predictions,
          summary |-> [high_probability |-> HighProbability(done.predictions),
                       medium_probability |-> MediumProbability(done.predictions),
                       low_probability |-> LowProbability(done.predictions)],
          failed_at |-> 0]

\* analyze_csv(file): the response.  file = [kind, rows]; kind "empty" is a file
\* with no data (EmptyDataError, 400), "headless" one that lacks a required
\* column (the HTTPException(400) raised inside the try is caught by
\* `except Exception` and answered as 500).
analyze_csv(self_predictor, self_model, self_feature_names, file, oracles) ==
    IF self_predictor = "None" THEN AnalyzeFailure(500, 0)
    ELSE IF file.kind = "empty" THEN AnalyzeFailure(400, 0)
    ELSE IF file.kind = "headless" THEN AnalyzeFailure(500, 0)
    ELSE AnalyzeResponse(ProcessRows(self_model, self_feature_names, file.rows, oracles))

\* the uploaded files of the model
MaxRows == 2
CsvRow(id, amount, days_overdue) ==
    [account_id |-> id, amount |-> amount, days_overdue |-> days_overdue]
\* a well-formed row for each id, and rows with a missing or malformed cell
CsvRows ==
    { CsvRow(HERO_ID, "1000", "45"), CsvRow("T1", "1000", "45"),
      CsvRow("T1", "N/A", "45"), CsvRow("T1", "abc", "45"),
      CsvRow("T1", "1000", "N/A"), CsvRow(HERO_ID, "1000", "N/A") }
RECURSIVE SeqsUpTo(_, _)
SeqsUpTo(S, n) ==
    IF n = 0 THEN {<<>>}
    ELSE LET shorter == SeqsUpTo(S, n - 1) IN
         shorter \cup {Append(q, x) : q \in {t \in shorter : Len(t) = n - 1}, x \in S}
CsvFiles ==
    {[kind |-> "empty", rows |-> <<>>], [kind |-> "headless", rows |-> <<>>]}
        \cup {[kind |-> "table", rows |-> r] : r \in SeqsUpTo(CsvRows, MaxRows)}
BatchOracles == {OracleRaises, OracleReturns(700), OracleReturns(300)}

(***************************************************************************)
(* main.py: the globals and the other handlers                             *)
(***************************************************************************)
\* the account ids of the model's requests; a dict with no keys
AccountKeys == {HERO_ID, "T1"}
EmptyDict == [f \in Fields |-> Absent]

\* line 46: accounts_db = {}
NoAccounts == [id \in AccountKeys |-> [stored |-> FALSE, data |-> EmptyDict]]
\* accounts_db[id] = data
Store(db, id, data) == [db EXCEPT ![id] = [stored |-> TRUE, data |-> data]]

\* lines 38-43: predictor = RecoveryPredictor(), or None when the constructor
\* raises.  __init__ returns early when no file is found and catches every
\* exception of the load (predictor.py:31-33, 60-62): nothing it does raises.
ConstructorRaises(a) == FALSE
StartEngine(a) == IF ConstructorRaises(a) THEN "None" ELSE "RecoveryPredictor"

HttpError(code) == [status |-> code, result |-> NoResult]
HttpOk(result) == [status |-> 200, result |-> result]

\* lines 89-102: GET /
home(self_predictor) ==
    [status |-> 200, ai_engine |-> IF self_predictor # "None" THEN "Loaded" ELSE "Error"]

\* lines 52-68, 116: data.dict() of a validated AccountRequest; the class has
\* no contact_attempts and no customer_tenure_months
AccountRequest(id, history) ==
    [f \in Fields |->
        CASE f = "account_id" -> Str(id)
          [] f = "company_name" -> Str("Acme")
          [] f = "amount" -> Num(1000 * Milli)
          [] f = "days_overdue" -> Num(45 * Milli)
          [] f = "payment_history_score" -> history
          [] f = "shipment_volume_change_30d" -> Num(250)
          [] f \in {"shipment_volume_30d", "express_ratio", "destination_diversity"} -> Num(0)
          [] f \in {"industry", "region"} -> Str("Other")
          [] f \in {"email_opened", "dispute_flag"} -> Bool(FALSE)
          [] OTHER -> Absent]
PredictRequests == {AccountRequest(id, h) : id \in AccountKeys, h \in {Num(0), Num(700)}}

\* lines 122-134, 215-225: the reply, given predict_recovery's outcome r and the
\* two casts float(account_data.get('amount', 0)), int(account_data.get(...))
PredictReply(r, amount, days_overdue) ==
    IF r.outcome = "raised" \/ ~amount.ok \/ ~days_overdue.ok
    THEN HttpError(500)
    ELSE HttpOk(r.result)

\* lines 104-134: POST /predict
predict_single(self_predictor, self_model, self_feature_names, account_data, oracle) ==
    IF self_predictor = "None" THEN HttpError(500)
    ELSE PredictReply(predict_recovery(self_model, self_feature_names, account_data, oracle),
                      PyFloat(Get(account_data, "amount", Num(0))),
                      PyInt(Get(account_data, "days_overdue", Num(0))))

\* lines 196-225: GET /account/{account_id}
get_account(self_predictor, self_model, self_feature_names, db, account_id, oracle) ==
    IF self_predictor = "None" THEN HttpError(500)
    ELSE IF account_id \notin AccountKeys THEN HttpError(404)
    ELSE IF ~db[account_id].stored THEN HttpError(404)
    ELSE predict_single(self_predictor, self_model, self_feature_names,
                        db[account_id].data, oracle)

\* RowsReached when a row is stored only after its prediction
RowsReachedAfterPredict(file, ret) ==
    IF file.kind # "table" THEN 0
    ELSE IF ret.status = 200 THEN Len(file.rows)
    ELSE ret.failed_at - 1

\* line 168: the loop stores each row's dict before it predicts; n rows were
\* reached when the loop ended
RowsReached(file, ret) ==
    IF file.kind # "table" THEN 0
    ELSE IF ret.status = 200 THEN Len(file.rows)
    ELSE ret.failed_at
StoreRows(db, rows, n) ==
    [id \in AccountKeys |->
        IF \E i \in 1..n : rows[i].account_id = id
        THEN [stored |-> TRUE,
              data |-> ReadCsvRow(rows, CHOOSE i \in 1..n :
                                    /\ rows[i].account_id = id
                                    /\ \A j \in (i + 1)..n : rows[j].account_id # id)]
        ELSE db[id]]

\* the ids asked of GET /account/{account_id}
RequestedIds == AccountKeys \cup {"ACC9999"}

(***************************************************************************)
(* The calls made on the explanation engine                                *)
(***************************************************************************)
\* the records whose prepared frames are explained
ExplainRecords ==
    { BaseRecord,
      [BaseRecord EXCEPT !["amount"] = Num(-5 * Milli)],
      [BaseRecord EXCEPT !["industry"] = Str("Tech"), !["region"] = Str("South"),
                         !["email_opened"] = Bool(TRUE), !["express_ratio"] = Num(250)] }
NoneFrame == [kind |-> "none", cols |-> <<>>]
EmptyFrame == [kind |-> "empty", cols |-> <<>>]
\* the frame prepare_features builds for a record
FrameOf(prepared) == [kind |-> "row", cols |-> prepared.X]
ExplainFrames(self_feature_names) ==
    {NoneFrame, EmptyFrame}
        \cup {FrameOf(prepare_features(self_feature_names, data)) : data \in ExplainRecords}

\* attributions for a frame of n columns: the pattern repeated along the columns
Along(pattern, n) == [i \in 1..n |-> pattern[((i - 1) % Len(pattern)) + 1]]
Negated(vals) ==
    [i \in 1..Len(vals) |->
        IF vals[i].k = "tiny" THEN Tiny(-vals[i].v) ELSE Num(-vals[i].v)]
AttributionPatterns ==
    { <<Num(300), Num(-500), Tiny(1), Num(0), Num(300), Num(-100), Num(50), Tiny(-1)>>,
      <<Num(0), Num(-20), Num(0), Num(0), Num(0), Num(0), Num(0), Num(0), Num(0), Num(0)>> }
ImportancePatterns ==
    { <<Num(100), Num(400), Num(0), Num(400), Num(50), Num(25), Num(10)>>,
      <<Num(0), Num(0), Num(0), Num(0), Num(0), Num(0), Num(0), Num(0), Num(0), Num(600)>> }
\* explainer.expected_value: a scalar, one value per class, or unreadable
ExpectedValues ==
    { [kind |-> "scalar", vals |-> <<620>>], [kind |-> "list", vals |-> <<380, 620>>],
      [kind |-> "missing", vals |-> <<>>] }
ShapRaises == [raises |-> TRUE, format |-> "array", vals |-> <<>>, expected |-> <<>>]
\* what explainer.shap_values returns on a frame of n columns: a list of two
\* class-wise arrays, a list of one array, or an array
ShapOutputs(n) ==
    {ShapRaises}
        \cup { [raises |-> FALSE, format |-> "list",
                vals |-> <<Negated(Along(p, n)), Along(p, n)>>, expected |-> e] :
                    p \in AttributionPatterns, e \in ExpectedValues }
        \cup { [raises |-> FALSE, format |-> f, vals |-> <<Along(p, n)>>, expected |-> e] :
                    f \in {"list", "array"}, p \in AttributionPatterns, e \in ExpectedValues }
ImportanceRaises == [raises |-> TRUE, vals |-> <<>>]
\* what reading model.feature_importances_ gives for a model of n features
ImportanceOutputs(n) ==
    {ImportanceRaises} \cup {[raises |-> FALSE, vals |-> Along(p, n)] : p \in ImportancePatterns}

\* the impacts explain_prediction ranks on this call
RankedImpacts(self, X, shap, imp) ==
    IF X.kind # "row" THEN <<>>
    ELSE IF self.explainer = "none" \/ shap.raises
    THEN (IF self.model = "clf" /\ imp.raises THEN <<>> ELSE Importances(self, X.cols, imp))
    ELSE TreeValues(shap)

(***************************************************************************)
(* The predictor as a library, and the HTTP service                        *)
(***************************************************************************)
NoReq == [op |-> "none"]
NoResp == [op |-> "none"]

Init ==
    /\ artifact \in Artifacts
    /\ predictor = StartEngine(artifact)
    /\ accounts_db = NoAccounts
    /\ model = LoadPredictor(artifact).model
    /\ feature_names = LoadPredictor(artifact).feature_names
    /\ engine = NoEngine
    /\ pc = "idle"
    /\ req = NoReq
    /\ resp = NoResp

\* CallPredictRecovery on a predictor that keeps the columns of the frame it
\* prepared as its feature_names
CallPredictRecoveryCaching ==
    /\ pc = "idle"
    /\ \E data \in Records, oracle \in Oracles :
        /\ req' = [op |-> "predict_recovery", data |-> data, oracle |-> oracle]
        /\ resp' = [op |-> "predict_recovery",
                    ret |-> predict_recovery(model, feature_names, data, oracle),
                    data |-> data]
        /\ feature_names' = [i \in 1..Len(resp'.ret.X) |-> resp'.ret.X[i][1]]
    /\ pc' = "responded"
    /\ UNCHANGED <<artifact, predictor, accounts_db, model, engine>>

\* a caller runs predictor.predict_recovery(data); resp.data is the caller's
\* dict once the call is over (nothing in lines 64-283 assigns into it)
CallPredictRecovery ==
    /\ pc = "idle"
    /\ \E data \in Records, oracle \in Oracles :
        /\ req' = [op |-> "predict_recovery", data |-> data, oracle |-> oracle]
        /\ resp' = [op |-> "predict_recovery",
                    ret |-> predict_recovery(model, feature_names, data, oracle),
                    data |-> data]
    /\ pc' = "responded"
    /\ UNCHANGED <<artifact, predictor, accounts_db, model, feature_names, engine>>

\* GET /
Home ==
    /\ pc = "idle"
    /\ req' = [op |-> "home"]
    /\ resp' = [op |-> "home", ret |-> home(predictor)]
    /\ pc' = "responded"
    /\ UNCHANGED <<artifact, predictor, accounts_db, model, feature_names, engine>>

\* POST /predict with a validated request body
PredictSingle ==
    /\ pc = "idle"
    /\ \E data \in PredictRequests, oracle \in BatchOracles :
        /\ req' = [op |-> "predict", data |-> data, oracle |-> oracle]
        /\ resp' = [op |-> "predict",
                    ret |-> predict_single(predictor, model, feature_names, data, oracle)]
        /\ accounts_db' = IF predictor = "None" THEN accounts_db
                          ELSE Store(accounts_db, data["account_id"].s, data)
    /\ pc' = "responded"
    /\ UNCHANGED <<artifact, predictor, model, feature_names, engine>>

\* POST /analyze with an uploaded file
AnalyzeCsv ==
    /\ pc = "idle"
    /\ \E file \in CsvFiles :
        \E oracles \in [1..Len(file.rows) -> BatchOracles] :
            /\ req' = [op |-> "analyze", file |-> file, oracles |-> oracles]
            /\ resp' = [op |-> "analyze",
                        ret |-> analyze_csv(predictor, model, feature_names, file, oracles)]
            /\ accounts_db' = StoreRows(accounts_db, file.rows, RowsReached(file, resp'.ret))
    /\ pc' = "responded"
    /\ UNCHANGED <<artifact, predictor, model, feature_names, engine>>

\* GET /account/{account_id}
GetAccount ==
    /\ pc = "idle"
    /\ \E account_id \in RequestedIds, oracle \in BatchOracles :
        /\ req' = [op |-> "account", account_id |-> account_id, oracle |-> oracle]
        /\ resp' = [op |-> "account",
                    ret |-> get_account(predictor, model, feature_names, accounts_db,
                                        account_id, oracle)]
    /\ pc' = "responded"
    /\ UNCHANGED <<artifact, predictor, accounts_db, model, feature_names, engine>>

\* the caller has its answer; the next call can start
Return ==
    /\ pc = "responded"
    /\ pc' = "idle"
    /\ req' = NoReq
    /\ resp' = NoResp
    /\ UNCHANGED <<artifact, predictor, accounts_db, model, feature_names, engine>>

Next == CallPredictRecovery \/ Return

Spec == Init /\ [][Next]_vars

\* engine = ExplainabilityEngine(model_path)
NewEngine ==
    /\ pc = "idle"
    /\ \E shap_available \in BOOLEAN, tree_raises \in BOOLEAN :
        engine' = ExplainabilityEngine(artifact, shap_available, tree_raises)
    /\ UNCHANGED <<artifact, predictor, accounts_db, model, feature_names, pc, req, resp>>

\* engine.explain_prediction(X_df) on a frame the predictor prepared
ExplainPrediction ==
    /\ pc = "idle"
    /\ engine.built
    /\ \E X \in ExplainFrames(feature_names) :
        \E shap \in ShapOutputs(Len(X.cols)), imp \in ImportanceOutputs(Len(X.cols)) :
            \E order \in Orders(RankedImpacts(engine, X, shap, imp),
                                Kept(RankedImpacts(engine, X, shap, imp),
                                     Min(Len(X.cols),
                                         Len(RankedImpacts(engine, X, shap, imp))))) :
                /\ req' = [op |-> "explain", X |-> X, shap |-> shap, imp |-> imp]
                /\ resp' = [op |-> "explain",
                            ret |-> explain_prediction(engine, X, shap, imp, order)]
    /\ pc' = "responded"
    /\ UNCHANGED <<artifact, predictor, accounts_db, model, feature_names, engine>>

ExplainNext == NewEngine \/ ExplainPrediction \/ Return

ExplainSpec == Init /\ [][ExplainNext]_vars

ServiceNext == Home \/ PredictSingle \/ AnalyzeCsv \/ GetAccount \/ Return

ServiceSpec == Init /\ [][ServiceNext]_vars

(***************************************************************************)
(* The derived metrics as a function of the probability alone: every       *)
(* probability of the grid 0 .. 1 goes through lines 204-283.              *)
(***************************************************************************)
DeriveMetrics ==
    /\ pc = "idle"
    /\ \E p \in 0..Milli :
        /\ req' = [op |-> "metrics", prob |-> p]
        /\ resp' = [op |-> "metrics",
                    ret |-> Metrics("T1", "Acme", p, Num(700), Num(250), Num(45 * Milli))]
    /\ pc' = "responded"
    /\ UNCHANGED <<artifact, predictor, accounts_db, model, feature_names, engine>>

MetricsNext == DeriveMetrics \/ Return

MetricsSpec == Init /\ [][MetricsNext]_vars

(***************************************************************************)
(* Properties                                                              *)
(***************************************************************************)
\* the last call was predict_recovery, on req.data
Predicted == resp.op = "predict_recovery"
SentinelRecord == req.data["account_id"] = Str(HERO_ID)
Returned == Predicted /\ resp.ret.outcome = "returned"
Occurrences(steps, step) == Cardinality({i \in 1..Len(steps) : steps[i] = step})

\* a non-empty string that spells no number
MalformedText(x) == x.k = "str" /\ x.s # "" /\ x.s \notin DOMAIN NumberTexts

\* the record's payment_history_score as a number of thousandths, 0 when it is
\* absent, null, nan or no number
HistoryScore(data) ==
    LET h == data["payment_history_score"] IN
    IF h.k = "num" THEN h.v
    ELSE IF h.k = "str" /\ h.s \in DOMAIN NumberTexts THEN NumberTexts[h.s]
    ELSE 0
ExpectedFallback(data) == IF HistoryScore(data) > 0 THEN HistoryScore(data) ELSE 500

\* inference fails in the call req: no model, or prepare_features raises, or
\* predict_proba raises
InferenceFails ==
    \/ model = "none"
    \/ \E f \in NumericFields : ~ParseNumeric(req.data)[f].ok
    \/ req.oracle.raises

\* C1: when the predictor holds a non-empty expected-feature list, the frame
\* prepare_features returns has exactly the expected columns in the expected
\* order; an expected column the encoder does not synthesize holds 0, and no
\* synthesized column outside the list is in the frame.
C1_AlignedToExpected ==
    (Predicted /\ resp.ret.X # NoFrame /\ feature_names # <<>>) =>
        LET X == resp.ret.X IN
        /\ Len(X) = Len(feature_names)
        /\ \A i \in 1..Len(X) : X[i][1] = feature_names[i]
        /\ \A i \in 1..Len(X) :
              X[i][1] \notin Range(SynthesizedColumns) => X[i][2] = Num(0)
        /\ \A c \in Range(SynthesizedColumns) \ Range(feature_names) :
              \A i \in 1..Len(X) : X[i][1] # c
C1_Witness ==
    /\ Predicted /\ resp.ret.X # NoFrame
    /\ feature_names = RetrainColumns
    /\ \E i \in 1..Len(resp.ret.X) : resp.ret.X[i] = <<"industry_Other", Num(0)>>

\* C2: a record whose account_id is the sentinel gets probability 0.925 and
\* risk level Low whatever its other fields hold and whether or not a model is
\* loaded, and neither feature encoding nor inference nor the fallback runs.
C2_SentinelOverride ==
    (Predicted /\ SentinelRecord) =>
        /\ resp.ret.outcome = "returned"
        /\ resp.ret.result.recovery_probability = 925
        /\ resp.ret.result.risk_level = "Low"
        /\ \A i \in 1..Len(resp.ret.steps) :
              resp.ret.steps[i] \notin {"encode", "infer", "except", "fallback"}
C2_Witness ==
    /\ Returned /\ SentinelRecord
    /\ MalformedText(req.data["amount"])
    /\ model = "none"
    /\ resp.ret.result.recovery_probability = 925

\* C3: when inference fails for a non-sentinel record, the probability returned
\* is the record's payment_history_score if that is greater than 0, else 0.5.
C3_FallbackProbability ==
    (Returned /\ ~SentinelRecord /\ InferenceFails) =>
        resp.ret.result.recovery_probability = ExpectedFallback(req.data)
C3_Witness ==
    /\ Returned /\ ~SentinelRecord
    /\ model = "clf" /\ ~req.oracle.raises
    /\ MalformedText(req.data["express_ratio"])
    /\ HistoryScore(req.data) = 300
    /\ resp.ret.result.recovery_probability = 300

\* C4: every result predict_recovery returns has recovery_probability in [0,1],
\* recovery_percentage equal to it, expected_days in [1,180], a risk_level among
\* Low / Medium / High / Very High and recovery_velocity_score >= 0.
C4_ResultRanges ==
    Returned =>
        LET r == resp.ret.result IN
        /\ 0 <= r.recovery_probability /\ r.recovery_probability <= Milli
        /\ r.recovery_percentage = r.recovery_probability
        /\ 1 <= r.expected_days /\ r.expected_days <= 180
        /\ r.risk_level \in {"Low", "Medium", "High", "Very High"}
        /\ r.recovery_velocity_score >= 0

\* a row that predict_recovery and the two casts of the loop body get through
RowProcessable(i) ==
    ProcessRow(model, feature_names, ReadCsvRow(req.file.rows, i), req.oracles[i]).ok

\* C5: in a batch, a row whose processing fails does not abort the batch: the
\* results of all the other rows are returned.
C5_BatchIsolation ==
    (resp.op = "analyze" /\ req.file.kind = "table") =>
        Len(resp.ret.predictions)
            >= Cardinality({i \in 1..Len(req.file.rows) : RowProcessable(i)})

\* C6: for a non-sentinel record the risk level and the expected days follow the
\* bucket table, expected days being the floor of the bucket's formula.
C6_BucketTable ==
    (Returned /\ ~SentinelRecord) =>
        LET r == resp.ret.result
            p == r.recovery_probability
        IN  /\ p > 800 =>
                  /\ r.risk_level = "Low"
                  /\ r.expected_days = (30 * 1000 + (1000 - p) * 50) \div 1000
            /\ (600 < p /\ p <= 800) =>
                  /\ r.risk_level = "Medium"
                  /\ r.expected_days = (45 * 1000 + (1000 - p) * 60) \div 1000
            /\ (400 < p /\ p <= 600) =>
                  /\ r.risk_level = "High"
                  /\ r.expected_days = (60 * 1000 + (1000 - p) * 80) \div 1000
            /\ p <= 400 =>
                  /\ r.risk_level = "Very High"
                  /\ r.expected_days = (90 * 1000 + (1000 - p) * 90) \div 1000

\* C7 as stated: Premium when p > 0.8, Standard when 0.6 < p <= 0.8, Standard
\* when 0.4 < p <= 0.6, Specialist when p <= 0.4.
C7_DcaFourTiers ==
    (Returned /\ ~SentinelRecord) =>
        LET r == resp.ret.result
            p == r.recovery_probability
        IN  /\ p > 800 => r.recommended_dca = "Premium Recovery Services"
            /\ (600 < p /\ p <= 800) => r.recommended_dca = "Standard Recovery Partners"
            /\ (400 < p /\ p <= 600) => r.recommended_dca = "Standard Recovery Partners"
            /\ p <= 400 => r.recommended_dca = "Recovery Specialists Inc"

\* C7 (amended): for a non-sentinel record the recommended_dca tier is Premium
\* when p > 0.8, Standard when 0.6 < p <= 0.8 and Specialist when p <= 0.6.
C7_DcaThreeTiers ==
    (Returned /\ ~SentinelRecord) =>
        LET r == resp.ret.result
            p == r.recovery_probability
        IN  /\ p > 800 => r.recommended_dca = "Premium Recovery Services"
            /\ (600 < p /\ p <= 800) => r.recommended_dca = "Standard Recovery Partners"
            /\ p <= 600 => r.recommended_dca = "Recovery Specialists Inc"
C7_Witness ==
    /\ Returned /\ ~SentinelRecord
    /\ resp.ret.result.recovery_probability = 600
    /\ resp.ret.result.risk_level = "High"
    /\ resp.ret.result.recommended_dca = "Recovery Specialists Inc"

\* the four risk buckets of the table
BucketHolds(b, p) ==
    CASE b = "Low" -> p > 800
      [] b = "Medium" -> 600 < p /\ p <= 800
      [] b = "High" -> 400 < p /\ p <= 600
      [] b = "Very High" -> p <= 400
Buckets == {"Low", "Medium", "High", "Very High"}

\* C8: for every probability p in [0,1] exactly one of the four risk buckets
\* applies (it is the risk level computed) and expected_days is in [1,180].
C8_OneBucketDaysInRange ==
    resp.op = "metrics" =>
        /\ Cardinality({b \in Buckets : BucketHolds(b, req.prob)}) = 1
        /\ BucketHolds(resp.ret.risk_level, req.prob)
        /\ 1 <= resp.ret.expected_days /\ resp.ret.expected_days <= 180
C8_Witness ==
    /\ resp.op = "metrics" /\ req.prob = 0
    /\ resp.ret.risk_level = "Very High" /\ resp.ret.expected_days = 180

\* C9: a record with a numeric field holding a non-empty string that spells no
\* number is rejected: the call raises and no result is returned.  Stated for
\* the non-sentinel records and a loaded model, where every numeric field is
\* due to be converted.
C9_MalformedRejected ==
    (Predicted /\ ~SentinelRecord /\ model = "clf"
        /\ \E f \in NumericFields : MalformedText(req.data[f])) =>
        resp.ret.outcome = "raised"

C11_DegradedMode ==
    model = "none" =>
        /\ resp.op = "home" => resp.ret.ai_engine # "Loaded"
        /\ resp.op \in {"predict", "analyze", "account"} => resp.ret.status >= 400

\* the artifact holds a classifier in one of the three recognised shapes
DirectShape(a) == a.shape = "estimator"
NestedShape(a) == a.shape = "dict" /\ a.models = "classifier"
AlternateKeyShape(a) == a.shape = "dict" /\ a.alt_key
Resolvable(a) ==
    a.exists /\ a.loadable /\ (DirectShape(a) \/ NestedShape(a) \/ AlternateKeyShape(a))

\* C12: loading resolves the classifier for each of the three artifact shapes
\* (the artifact predicts; a container with the classifier under
\* 'models'/'classifier'; a container with the classifier under the alternate
\* key), and the load fails with an error when no classifier can be resolved.
C12_ResolvesThreeShapes ==
    /\ Resolvable(artifact) => model = "clf"
    /\ ~Resolvable(artifact) => (model = "none" /\ predictor = "None")

BoolFields == {"email_opened", "dispute_flag"}
\* a missing value: the key is absent, the value is None, or it is the nan
\* that row.to_dict() holds for an empty CSV cell
IsNull(x) == x.k \in {"absent", "none", "nan"}
\* the record with every missing numeric / boolean-like field set to its zero
ZeroNulls(data) ==
    [f \in Fields |->
        IF f \in NumericFields /\ IsNull(data[f]) THEN Num(0)
        ELSE IF f \in BoolFields /\ IsNull(data[f]) THEN Bool(FALSE)
        ELSE data[f]]
NoMalformedText(data) == \A f \in NumericFields : ~MalformedText(data[f])

\* C14: a numeric or boolean-like field that is absent or null is encoded as
\* its zero value: with a loaded model and a predict_proba that answers, the
\* call returns without taking the fallback, and the feature frame is the one
\* of the record with the missing fields set to 0 / false.
C14_NullIsZero ==
    (Predicted /\ ~SentinelRecord /\ model = "clf" /\ ~req.oracle.raises
        /\ NoMalformedText(req.data)) =>
        /\ resp.ret.outcome = "returned"
        /\ resp.ret.steps = <<"originals", "encode", "infer", "metrics">>
        /\ resp.ret.X = prepare_features(feature_names, ZeroNulls(req.data)).X

HasColumn(X, c) == \E i \in 1..Len(X) : X[i][1] = c
Column(X, c) == X[CHOOSE i \in 1..Len(X) : X[i][1] = c][2]
\* predict_proba ran in the call on the frame resp.ret.X
ReachedInference == Predicted /\ Occurrences(resp.ret.steps, "infer") > 0

\* C15: a record with a negative amount is rejected or has its amount clamped
\* to 0 before log(1 + amount): in every feature frame that reaches inference
\* amount_log is a finite number >= 0, and it is 0 when the amount is negative.
C15_NegativeAmountClamped ==
    (ReachedInference /\ HasColumn(resp.ret.X, "amount_log")
        /\ req.data["amount"].k = "num") =>
        LET amount_log == Column(resp.ret.X, "amount_log") IN
        /\ amount_log.k = "num" /\ amount_log.v >= 0
        /\ req.data["amount"].v < 0 => amount_log = Num(0)

EnumIndustries == {"Construction", "Medical", "Retail", "Tech", "Textile"}
EnumRegions == {"East", "North", "South", "West"}
IndustryColumn ==
    [Construction |-> "industry_Construction", Medical |-> "industry_Medical",
     Retail |-> "industry_Retail", Tech |-> "industry_Tech", Textile |-> "industry_Textile"]
RegionColumn ==
    [East |-> "region_East", North |-> "region_North", South |-> "region_South",
     West |-> "region_West"]
\* the columns of X among cols that hold 1
SetIn(X, cols) == {c \in cols : HasColumn(X, c) /\ Column(X, c) = Num(Milli)}

\* C16: a record with industry "Technology" gets the feature frame of the same
\* record with industry "Tech", with industry_Tech = 1 and every other industry
\* indicator 0; any other industry string is encoded under its own name.
C16_TechnologyIsTech ==
    (Predicted /\ resp.ret.X # NoFrame /\ req.data["industry"].k = "str") =>
        LET X == resp.ret.X
            given == req.data["industry"].s
        IN  /\ given = "Technology" =>
                /\ X = prepare_features(feature_names,
                                        [req.data EXCEPT !["industry"] = Str("Tech")]).X
                /\ SetIn(X, Range(SynthesizedColumns) \ {"industry_Tech"})
                      \cap {IndustryColumn[c] : c \in EnumIndustries} = {}
                /\ HasColumn(X, "industry_Tech") => Column(X, "industry_Tech") = Num(Milli)
            /\ given # "Technology" =>
                \A c \in EnumIndustries :
                    HasColumn(X, IndustryColumn[c]) =>
                        Column(X, IndustryColumn[c]) = IF given = c THEN Num(Milli) ELSE Num(0)
C16_Witness ==
    /\ Predicted /\ req.data["industry"] = Str("Technology")
    /\ feature_names = SynthesizedColumns
    /\ SetIn(resp.ret.X, {IndustryColumn[c] : c \in EnumIndustries}) = {"industry_Tech"}

\* a record whose numeric fields all convert
NumericFieldsConvert(data) == \A f \in NumericFields : ParseNumeric(data)[f].ok
\* the category a field names: its string, "Technology" read as "Tech" for the
\* industry; none ("") when the field is missing or not a string
IndustryCategory(x) ==
    IF x.k # "str" THEN "" ELSE IF x.s = "Technology" THEN "Tech" ELSE x.s
RegionCategory(x) == IF x.k # "str" THEN "" ELSE x.s

\* C17: the indicator industry_X (region_X) of an enumerated category X is 1
\* exactly when the record's normalized industry (region) is X, so at most one
\* indicator of each family is set; a missing or unseen category gives all-zero
\* indicators and raises nothing.
C17_OneHot ==
    (Predicted /\ ~SentinelRecord /\ model = "clf" /\ NumericFieldsConvert(req.data)) =>
        LET X == resp.ret.X IN
        /\ resp.ret.outcome = "returned" /\ X # NoFrame
        /\ \A c \in EnumIndustries :
              HasColumn(X, IndustryColumn[c]) =>
                  Column(X, IndustryColumn[c]) =
                      IF IndustryCategory(req.data["industry"]) = c THEN Num(Milli) ELSE Num(0)
        /\ \A c \in EnumRegions :
              HasColumn(X, RegionColumn[c]) =>
                  Column(X, RegionColumn[c]) =
                      IF RegionCategory(req.data["region"]) = c THEN Num(Milli) ELSE Num(0)
        /\ Cardinality(SetIn(X, {IndustryColumn[c] : c \in EnumIndustries})) <= 1
        /\ Cardinality(SetIn(X, {RegionColumn[c] : c \in EnumRegions})) <= 1
C17_Witness ==
    /\ Returned /\ ~SentinelRecord /\ feature_names = SynthesizedColumns
    /\ req.data["region"] = Str("Central")
    /\ SetIn(resp.ret.X, {RegionColumn[c] : c \in EnumRegions}) = {}
    /\ resp.ret.steps = <<"originals", "encode", "infer", "metrics">>

\* C18: email_opened and dispute_flag encode a string as 1 exactly when its
\* upper-cased form is TRUE, 1 or YES (0 for every other string), and a value
\* that is no string as 1 exactly when it is truthy.
C18_BooleanLike ==
    (Predicted /\ resp.ret.X # NoFrame) =>
        \A f \in BoolFields :
            HasColumn(resp.ret.X, f) =>
                LET x == req.data[f]
                    one == IF x.k = "str" THEN Upper(x.s) \in {"TRUE", "1", "YES"}
                           ELSE x.k # "absent" /\ PyTruthy(x)
                IN  Column(resp.ret.X, f) = IF one THEN Num(Milli) ELSE Num(0)
C18_Witness ==
    /\ Predicted /\ HasColumn(resp.ret.X, "email_opened")
    /\ req.data["email_opened"] = Str("Yes")
    /\ Column(resp.ret.X, "email_opened") = Num(Milli)

\* C19: the top_factors of a non-sentinel result are exactly three, in the
\* order payment_history_score (impact the score; positive if > 0.5 else
\* neutral), shipment_volume_change_30d (impact the absolute value; positive
\* if > 0 else negative), days_overdue (impact min(days / 180, 1); neutral if
\* < 60 else negative), whatever the probability and whether or not inference
\* succeeded.
C19_ThreeFactors ==
    (Returned /\ ~SentinelRecord) =>
        LET tf == resp.ret.result.top_factors
            o == Originals(req.data)
            score == o.history.val
            change == o.shipment.val
            days == o.days.val
        IN  /\ Len(tf) = 3
            /\ tf[1].feature = "payment_history_score"
            /\ tf[1].impact = score
            /\ tf[1].direction = IF score.k = "num" /\ score.v > 500 THEN "positive"
                                 ELSE "neutral"
            /\ tf[2].feature = "shipment_volume_change_30d"
            /\ tf[2].impact = (IF change.k = "num" /\ change.v < 0 THEN Num(-change.v)
                               ELSE change)
            /\ tf[2].direction = IF change.k = "num" /\ change.v > 0 THEN "positive"
                                 ELSE "negative"
            /\ tf[3].feature = "days_overdue"
            /\ tf[3].impact = Num(IF days.v >= 180 * Milli THEN Milli ELSE days.v \div 180)
            /\ tf[3].direction = IF days.v < 60 * Milli THEN "neutral" ELSE "negative"
C19_Witness ==
    /\ Returned /\ ~SentinelRecord
    /\ req.data["days_overdue"] = Num(200 * Milli)
    /\ Occurrences(resp.ret.steps, "fallback") = 1
    /\ resp.ret.result.top_factors[3] = Factor("days_overdue", Num(Milli), "negative")
    /\ resp.ret.result.top_factors[1].direction = "positive"

\* C20: when an explanation engine exists for the loaded artifact, the result
\* of a prediction carries the engine's factors in place of the three metric
\* factors: at most five, each named by the human-readable name of a column of
\* the feature frame.
C20_EngineFactors ==
    (Returned /\ ~SentinelRecord /\ model = "clf" /\ ExplainerModel(artifact) = "clf"
        /\ resp.ret.X # NoFrame) =>
        LET tf == resp.ret.result.top_factors
            X == resp.ret.X
        IN  /\ Len(tf) <= 5
            /\ \A i \in 1..Len(tf) :
                  \E j \in 1..Len(X) : tf[i].feature = CleanFeatureName(X[j][1])


\* the last call was explain_prediction, on req.X
Explained == resp.op = "explain"
\* the call went down the tree-attribution path
TreePath == Explained /\ req.X.kind = "row" /\ engine.explainer = "tree" /\ ~req.shap.raises
\* the call went down the importance fallback
FallbackPath == Explained /\ req.X.kind = "row" /\ ~TreePath
\* abs(a) >= abs(b) on floats; False when either is nan
GeMagnitude(a, b) ==
    \/ Magnitude(a).k = "num" /\ Magnitude(b).k = "num" /\ Magnitude(a).v >= Magnitude(b).v
    \/ Magnitude(a).k = "inf" /\ Magnitude(b).k \in {"num", "inf"}
NonIncreasing(factors) ==
    \A r \in 1..(Len(factors) - 1) : GeMagnitude(factors[r].impact, factors[r + 1].impact)
HasNanCell(X) == \E i \in 1..Len(X.cols) : X.cols[i][2].k = "nan"

\* C21: on every path explain_prediction returns at most 5 factors, ordered by
\* non-increasing absolute impact.
C21_TopFiveSorted ==
    Explained =>
        /\ Len(resp.ret.top_factors) <= 5
        /\ NonIncreasing(resp.ret.top_factors)

\* C21 on the frames that hold no nan (what is left of it)
FiniteTopFiveSorted ==
    (Explained /\ ~HasNanCell(req.X)) =>
        /\ Len(resp.ret.top_factors) <= 5
        /\ NonIncreasing(resp.ret.top_factors)

\* the importance fallback itself failed on this call
FallbackFailed == FallbackPath /\ engine.model = "clf" /\ req.imp.raises
\* attribution was tried on this call and raised
AttributionFailed ==
    Explained /\ req.X.kind = "row" /\ engine.explainer = "tree" /\ req.shap.raises

\* C22: explain_prediction never raises: without a usable attribution it returns
\* the importance fallback, and when that fails too, or the input is empty, an
\* empty factor list.
C22_NeverRaises ==
    Explained =>
        /\ resp.ret.outcome = "returned"
        /\ req.X.kind # "row" => resp.ret.top_factors = <<>>
        /\ FallbackFailed => resp.ret.top_factors = <<>>
        /\ (FallbackPath /\ ~FallbackFailed) =>
              /\ resp.ret.method = "feature_importance_fallback"
              /\ \A r \in 1..Len(resp.ret.top_factors) :
                    \E i \in 1..Len(req.X.cols) :
                        /\ resp.ret.top_factors[r].feature = CleanFeatureName(req.X.cols[i][1])
                        /\ resp.ret.top_factors[r].impact =
                              Importances(engine, req.X.cols, req.imp)[i]
C22_Witness ==
    /\ AttributionFailed
    /\ FallbackFailed
    /\ resp.ret.outcome = "returned"
    /\ resp.ret.top_factors = <<>>

\* C23: every result of explain_prediction has a base_value, and it is 0.5
\* whenever the attribution method supplies none.
C23_BaseValuePresent ==
    Explained =>
        /\ resp.ret.base_value # Absent
        /\ (~TreePath \/ req.shap.expected.kind = "missing") =>
              resp.ret.base_value = Num(500)

\* the attributions of the positive class, as shap_values returned them
PositiveClass(shap) ==
    IF shap.format = "list" /\ Len(shap.vals) = 2 THEN shap.vals[2] ELSE shap.vals[1]

\* C24: on the tree path every factor carries an attribution of magnitude at
\* least 1e-10 as its signed impact, with direction positive exactly when it is
\* greater than 0; of a class-wise pair the positive-class member is used.
C24_TreeFactors ==
    TreePath =>
        \A r \in 1..Len(resp.ret.top_factors) :
            /\ ~Negligible(resp.ret.top_factors[r].impact)
            /\ resp.ret.top_factors[r].direction =
                  IF Gt(resp.ret.top_factors[r].impact, 0) THEN "positive" ELSE "negative"
            /\ \E i \in 1..Len(req.X.cols) :
                  /\ resp.ret.top_factors[r].feature = CleanFeatureName(req.X.cols[i][1])
                  /\ resp.ret.top_factors[r].impact = PositiveClass(req.shap)[i]
C24_Witness ==
    /\ TreePath
    /\ req.shap.format = "list" /\ Len(req.shap.vals) = 2
    /\ \E i \in 1..Len(req.X.cols) : Negligible(req.shap.vals[2][i])
    /\ Len(resp.ret.top_factors) = 5
    /\ \E r \in 1..5 : resp.ret.top_factors[r].direction = "negative"
    /\ \E r \in 1..5 : resp.ret.top_factors[r].direction = "positive"

\* C30: for every artifact the predictor's loader and the engine's loader
\* resolve the same classifier, or both none.
C30_SameClassifier ==
    engine.built => engine.model = model

\* the last request was POST /analyze and it was answered with the batch
Analyzed == resp.op = "analyze" /\ resp.ret.status = 200
\* the bands a probability (in thousandths) falls in
BandsOf(p) ==
    {b \in {"high", "medium", "low"} :
        \/ b = "high" /\ p > 700
        \/ b = "medium" /\ 400 < p /\ p <= 700
        \/ b = "low" /\ p <= 400}
CountedIn(predictions, band) ==
    Cardinality({i \in 1..Len(predictions) :
                    band \in BandsOf(predictions[i].recovery_probability)})

\* C25: the batch summary partitions the returned predictions into the bands
\* > 0.7, (0.4, 0.7] and <= 0.4: the three counts are the sizes of the bands,
\* they sum to total_accounts, and total_accounts is the number of predictions.
C25_SummaryPartitions ==
    Analyzed =>
        /\ resp.ret.total_accounts = Len(resp.ret.predictions)
        /\ \A i \in 1..Len(resp.ret.predictions) :
              Cardinality(BandsOf(resp.ret.predictions[i].recovery_probability)) = 1
        /\ resp.ret.summary.high_probability = CountedIn(resp.ret.predictions, "high")
        /\ resp.ret.summary.medium_probability = CountedIn(resp.ret.predictions, "medium")
        /\ resp.ret.summary.low_probability = CountedIn(resp.ret.predictions, "low")
        /\ resp.ret.summary.high_probability + resp.ret.summary.medium_probability
              + resp.ret.summary.low_probability = resp.ret.total_accounts
C25_Witness ==
    /\ Analyzed
    /\ resp.ret.total_accounts = 2
    /\ resp.ret.predictions[1].recovery_probability = 700
    /\ resp.ret.summary.medium_probability = 1
    /\ resp.ret.summary.high_probability = 1

\* the last request was GET /account/{account_id}
Looked == resp.op = "account"
InStore(id) == id \in AccountKeys /\ accounts_db[id].stored
\* no step takes an id out of the store
StoreOnlyGrows ==
    [][\A id \in AccountKeys : accounts_db[id].stored => accounts_db'[id].stored]_vars

\* C28: GET /account/{id} answers 404 exactly when nothing was stored under the
\* id, and for a stored id it answers with what predict_recovery returns on the
\* record stored last under it.
C28_AccountLookup ==
    Looked =>
        /\ resp.ret.status = 404 <=> ~InStore(req.account_id)
        /\ InStore(req.account_id) =>
              (predict_recovery(model, feature_names, accounts_db[req.account_id].data,
                                req.oracle).outcome = "returned"
                => /\ resp.ret.status = 200
                   /\ resp.ret.result =
                        predict_recovery(model, feature_names,
                                         accounts_db[req.account_id].data,
                                         req.oracle).result)

\* the rows of the file of the last /analyze that are stored as the file has them
RowStored(file, i) ==
    /\ accounts_db[file.rows[i].account_id].stored
    /\ accounts_db[file.rows[i].account_id].data = ReadCsvRow(file.rows, i)
\* the store a request leaves when it writes rows 1..n of its file
Written(db, rows, n) ==
    [id \in AccountKeys |->
        IF \E i \in 1..n : rows[i].account_id = id
        THEN [stored |-> TRUE,
              data |-> ReadCsvRow(rows, CHOOSE i \in 1..n :
                                    /\ rows[i].account_id = id
                                    /\ \A j \in (i + 1)..n : rows[j].account_id # id)]
        ELSE db[id]]

Derived == resp.op = "metrics"

\* C27: expected_days is non-increasing in the probability over [0, 1], the
\* bucket edges 0.4, 0.6 and 0.8 included.
C27_ExpectedDaysMonotone ==
    Derived =>
        \A q \in 0..Milli : q < req.prob => ExpectedDays(q) >= resp.ret.expected_days
C27_Witness ==
    /\ Derived
    /\ req.prob = 801
    /\ resp.ret.expected_days = 39
    /\ ExpectedDays(800) = 57
====
